---- MODULE Spec2Model ----
(***************************************************************************)
(* A model of the To-Do application of src/app.py: the task collection,    *)
(* the snapshot based undo/redo stacks, the persisted file, the filter     *)
(* variables and the rows of the tree view, with one action per handler.   *)
(*                                                                         *)
(* Python strings are sequences of one-character strings, so that strip(), *)
(* lower(), split(",") and the substring test are computed, not assumed.   *)
(* Tree item ids are str(task.id) in the source; ids are integers here and *)
(* int(str(i)) = i for every integer, so a row is named by the integer.    *)
(***************************************************************************)
EXTENDS Integers, Sequences, FiniteSets, TLC

VARIABLES
    tasks,          \* self.tasks: the list of Task objects, in list order
    undo_stack,     \* self.undo_stack: list of snapshots (lists of dicts)
    redo_stack,     \* self.redo_stack
    file,           \* tasks.json: [exists, data]
    disk_ok,        \* whether open(STORAGE_FILE, "w") succeeds
    exported,       \* the file Export JSON was last pointed at: [exists, data]
    filter_mode,    \* self.filter_mode
    filter_priority,\* self.filter_priority
    search_text,    \* self.search_text
    tree,           \* self.tree.get_children(""): the rows, top to bottom
    dragging_iid,   \* self._dragging_iid (NoRow for None)
    now,            \* the wall clock, in milliseconds
    error,          \* the messagebox shown by the last handler ("" for none)
    lastOp,         \* the last handler that ran on the collection, with its input
    trail,          \* where lastOp stands in a run of mutation, undo and redo
    pre             \* self.tasks and the clock as they were when lastOp began,
                    \* and the two stacks when lastOp is an undo or a redo

vars == <<tasks, undo_stack, redo_stack, file, disk_ok, exported, filter_mode,
          filter_priority, search_text, tree, dragging_iid, now, error,
          lastOp, trail, pre>>

-----------------------------------------------------------------------------
(* Bounds of the model.                                                    *)

MaxTasks == 3
MaxTime == 1
MaxHist == 2
MaxStoreOps == 5
MaxDiskOps == 4
MaxDiskTasks == 2
MaxExportOps == 3

-----------------------------------------------------------------------------
(* Strings.                                                                *)

S_Low == <<"L", "o", "w">>
S_Medium == <<"M", "e", "d", "i", "u", "m">>
S_High == <<"H", "i", "g", "h">>
S_All == <<"A", "l", "l">>
S_Active == <<"A", "c", "t", "i", "v", "e">>
S_Completed == <<"C", "o", "m", "p", "l", "e", "t", "e", "d">>

PRIORITIES == <<S_Low, S_Medium, S_High>>

DATE_HINT == <<"Y", "Y", "Y", "Y", "-", "M", "M", "-", "D", "D">>

Range(s) == {s[i] : i \in 1..Len(s)}

\* str.lower(), one character
LowerChar(c) ==
    CASE c = "A" -> "a" [] c = "B" -> "b" [] c = "C" -> "c" [] c = "D" -> "d"
      [] c = "E" -> "e" [] c = "F" -> "f" [] c = "G" -> "g" [] c = "H" -> "h"
      [] c = "I" -> "i" [] c = "J" -> "j" [] c = "K" -> "k" [] c = "L" -> "l"
      [] c = "M" -> "m" [] c = "N" -> "n" [] c = "O" -> "o" [] c = "P" -> "p"
      [] c = "Q" -> "q" [] c = "R" -> "r" [] c = "S" -> "s" [] c = "T" -> "t"
      [] c = "U" -> "u" [] c = "V" -> "v" [] c = "W" -> "w" [] c = "X" -> "x"
      [] c = "Y" -> "y" [] c = "Z" -> "z" [] OTHER -> c

\* str.lower()
Lower(s) == [i \in 1..Len(s) |-> LowerChar(s[i])]

IsSpace(c) == c = " "

\* str.strip(): drop the leading and the trailing whitespace
Strip(s) ==
    LET keep == {i \in 1..Len(s) : ~IsSpace(s[i])}
    IN  IF keep = {} THEN <<>>
        ELSE LET lo == CHOOSE i \in keep : \A j \in keep : i <= j
                 hi == CHOOSE i \in keep : \A j \in keep : i >= j
             IN  SubSeq(s, lo, hi)

\* q in hay, for strings
IsSubstring(q, hay) ==
    \E i \in 0..(Len(hay) - Len(q)) : SubSeq(hay, i + 1, i + Len(q)) = q

\* sep.join(parts), sep one string
RECURSIVE Join(_, _)
Join(parts, sep) ==
    IF parts = <<>> THEN <<>>
    ELSE IF Len(parts) = 1 THEN parts[1]
    ELSE parts[1] \o sep \o Join(Tail(parts), sep)

\* s.split(","): the pieces between the commas, empty pieces included
RECURSIVE SplitComma(_)
SplitComma(s) ==
    LET commas == {i \in 1..Len(s) : s[i] = ","}
    IN  IF commas = {} THEN <<s>>
        ELSE LET k == CHOOSE i \in commas : \A j \in commas : i <= j
             IN  <<SubSeq(s, 1, k - 1)>> \o SplitComma(SubSeq(s, k + 1, Len(s)))

\* [t.strip() for t in s.split(",") if t.strip()]
RECURSIVE StripNonEmpty(_)
StripNonEmpty(parts) ==
    IF parts = <<>> THEN <<>>
    ELSE LET p == Strip(parts[1])
         IN  (IF p = <<>> THEN <<>> ELSE <<p>>) \o StripNonEmpty(Tail(parts))

ParseTags(s) == StripNonEmpty(SplitComma(s))

-----------------------------------------------------------------------------
(* The Task record and its serialization.                                  *)

NoRow == -1

\* Task.__init__: an unknown priority becomes Medium, tags default to []
Task(task_id, text, completed, created_at, priority, due_date, tags, order_index) ==
    [id |-> task_id,
     text |-> text,
     completed |-> completed,
     created_at |-> created_at,
     priority |-> IF priority \in Range(PRIORITIES) THEN priority ELSE S_Medium,
     due_date |-> due_date,
     tags |-> IF tags = <<>> THEN <<>> ELSE tags,
     order_index |-> order_index]

\* Task.to_dict
to_dict(t) ==
    [id |-> t.id,
     text |-> t.text,
     completed |-> t.completed,
     created_at |-> t.created_at,
     priority |-> t.priority,
     due_date |-> t.due_date,
     tags |-> t.tags,
     order_index |-> t.order_index]

\* dict.get(key, default); a dict is a function from its keys
Get(d, key, default) == IF key \in DOMAIN d THEN d[key] ELSE default

\* Task.from_dict; clk is the clock reading of its two calls of time.time(),
\* taken in the same millisecond
from_dict(data, clk) ==
    Task(Get(data, "id", clk),
         Get(data, "text", <<>>),
         Get(data, "completed", FALSE),
         Get(data, "created_at", clk),
         Get(data, "priority", S_Medium),
         Get(data, "due_date", <<>>),
         Get(data, "tags", <<>>),
         Get(data, "order_index", 0))

\* [t.to_dict() for t in self.tasks]
Snapshot(ts) == [i \in 1..Len(ts) |-> to_dict(ts[i])]

\* [Task.from_dict(d) for d in snapshot]
Restore(snap, clk) == [i \in 1..Len(snap) |-> from_dict(snap[i], clk)]

-----------------------------------------------------------------------------
(* Sorting.  sorted() is stable: equal keys keep their list order.         *)

\* a < b for two sort keys, tuples of integers compared place by place
KeyLess(a, b) ==
    \E k \in 1..Len(a) : a[k] < b[k] /\ \A m \in 1..(k - 1) : a[m] = b[m]

\* the number of elements sorted() places before element i, keys[j] being the
\* key of element j
SortRank(keys, i) ==
    Cardinality({j \in 1..Len(keys) :
                    \/ KeyLess(keys[j], keys[i])
                    \/ (~KeyLess(keys[i], keys[j]) /\ j < i)})

\* sorted(s, key=...)
StableSort(s, keys) ==
    [k \in 1..Len(s) |-> s[CHOOSE i \in 1..Len(s) : SortRank(keys, i) = k - 1]]

\* key=lambda t: t.order_index
ByOrderIndex(ts) == [i \in 1..Len(ts) |-> <<ts[i].order_index>>]

\* key=lambda t: (t.order_index, t.created_at, t.id)
ByCanonicalKey(ts) ==
    [i \in 1..Len(ts) |-> <<ts[i].order_index, ts[i].created_at, ts[i].id>>]

\* a _save_tasks that leaves the order_index values as they are
RenumberSkipped(ts) == ts

\* _save_tasks, lines 279-280: every task gets its place in the order_index sort
Renumber(ts) ==
    [i \in 1..Len(ts) |-> [ts[i] EXCEPT !.order_index = SortRank(ByOrderIndex(ts), i)]]

\* _save_tasks, lines 281-282: the file after the dump of the (renumbered) tasks;
\* when the file cannot be opened for writing it keeps its content
WriteFile(ts, f, ok) ==
    IF ok THEN [exists |-> TRUE, data |-> Snapshot(ts)] ELSE f

-----------------------------------------------------------------------------
(* Filtering and the tree view.                                            *)

\* _filter_include
_filter_include(task, mode, prio, search) ==
    LET q == Lower(Strip(search))
        hay == Lower(Join(<<task.text, task.due_date, task.priority,
                            Join(task.tags, <<",">>)>>, <<" ">>))
    IN  /\ ~(mode = S_Active /\ task.completed)
        /\ ~(mode = S_Completed /\ ~task.completed)
        /\ ~(prio # S_All /\ task.priority # prio)
        /\ (q # <<>> => IsSubstring(q, hay))

\* SelectSeq with a two-argument test
RECURSIVE Keep(_, _, _, _)
Keep(ts, mode, prio, search) ==
    IF ts = <<>> THEN <<>>
    ELSE (IF _filter_include(Head(ts), mode, prio, search) THEN <<Head(ts)>> ELSE <<>>)
         \o Keep(Tail(ts), mode, prio, search)

\* the tasks _refresh_tree walks through and keeps, in the order of its loop
Visible(ts, mode, prio, search) ==
    Keep(StableSort(ts, ByCanonicalKey(ts)), mode, prio, search)

\* tree.insert(..., iid=str(task.id)) raises TclError when the item exists:
\* the loop of _refresh_tree ends there and the rows inserted so far stay
RECURSIVE InsertRows(_, _)
InsertRows(rows, ids) ==
    IF ids = <<>> THEN rows
    ELSE IF Head(ids) \in Range(rows) THEN rows
    ELSE InsertRows(Append(rows, Head(ids)), Tail(ids))

\* _refresh_tree: the rows of the tree after it
_refresh_tree(ts, mode, prio, search) ==
    LET shown == Visible(ts, mode, prio, search)
    IN  InsertRows(<<>>, [i \in 1..Len(shown) |-> shown[i].id])

\* whether _refresh_tree ran to its end
RefreshCompletes(ts, mode, prio, search) ==
    Len(_refresh_tree(ts, mode, prio, search)) = Len(Visible(ts, mode, prio, search))

-----------------------------------------------------------------------------
(* The inputs the handlers are run with.                                   *)

\* what the four entry widgets of the add row hold when Add is pressed
AddInputs ==
    {[text |-> <<" ">>, priority |-> S_Medium, due |-> DATE_HINT, tags |-> <<>>],
     [text |-> <<" ", "B", " ">>, priority |-> S_High, due |-> DATE_HINT,
      tags |-> <<"x", ",", " ", ",", "Y", " ">>]}

\* an answer of simpledialog.askstring: cancelled (None) or a string
Cancel == [ok |-> FALSE, value |-> <<>>]
Answer(s) == [ok |-> TRUE, value |-> s]

\* the answers to the four dialogs of edit_selected_task
EditInputs ==
    {[text |-> Cancel, due |-> Cancel, pri |-> Cancel, tags |-> Cancel],
     [text |-> Answer(<<" ", " ">>), due |-> Cancel, pri |-> Cancel, tags |-> Cancel],
     [text |-> Answer(<<" ", "a">>), due |-> Answer(<<"2">>), pri |-> Answer(S_Low),
      tags |-> Answer(<<"p", ",", ",", "q", " ">>)],
     [text |-> Answer(<<"a">>), due |-> Cancel, pri |-> Answer(<<"l", "o", "w">>),
      tags |-> Cancel]}

\* an element of a JSON array: a dict or something else
Dict(d) == [dict |-> TRUE, val |-> d]
NotDict == [dict |-> FALSE, val |-> <<>>]

JsonA ==
    Dict([id |-> 9, text |-> <<"a">>, completed |-> TRUE, created_at |-> 0,
          priority |-> <<"U", "r", "g", "e", "n", "t">>, due_date |-> <<"1">>,
          tags |-> <<<<"x">>>>, order_index |-> -1])
JsonC == Dict([text |-> <<"b">>])

\* the content of the file Import JSON is pointed at: a JSON object, or an
\* array of a full record, a string and a record with only its text
JsonFiles ==
    {[kind |-> "object", items |-> <<>>],
     [kind |-> "list", items |-> <<JsonA, NotDict, JsonC>>]}

\* what the claims need to know of an imported file
JsonKind(data) == data.kind

CsvRow1 ==
    [id |-> <<"7">>, text |-> <<"a">>, completed |-> <<"Y", "e", "s", " ">>,
     priority |-> S_High, due_date |-> <<>>, tags |-> <<"x", ",", " ", ",", "y">>]
CsvRow2 ==
    [id |-> <<"7">>, text |-> <<"b">>, completed |-> <<"n", "o">>,
     priority |-> <<>>, due_date |-> <<"1">>, tags |-> <<>>]
CsvRow3 == [text |-> <<"e">>, completed |-> <<"y">>, order_index |-> <<" ", "5">>]
CsvRow4 == [text |-> <<"f">>, completed |-> <<>>, order_index |-> <<"x">>]

\* the rows csv.DictReader yields for the file Import CSV is pointed at
\* (readable: whether open() succeeds): a file with an id column and no
\* order_index column, and a file whose second row has no integer order_index
CsvFiles ==
    {[readable |-> FALSE, rows |-> <<>>],
     [readable |-> TRUE, rows |-> <<CsvRow1, CsvRow2>>],
     [readable |-> TRUE, rows |-> <<CsvRow3, CsvRow4>>]}

NoData == "none"

\* the search strings typed into the search entry
SearchTexts == {<<>>, <<" ", "A">>}

\* the clock readings of n successive calls of time.time(), the first not
\* before t (time passes between two events too): the clock never goes backwards
ClockRuns(t, n) ==
    {r \in [1..n -> t..MaxTime] : \A i \in 1..(n - 1) : r[i] <= r[i + 1]}

-----------------------------------------------------------------------------
(* Parsing of CSV fields.                                                  *)

Digits == <<"0", "1", "2", "3", "4", "5", "6", "7", "8", "9">>

DigitValue(c) == (CHOOSE i \in 1..10 : Digits[i] = c) - 1

RECURSIVE DigitsValue(_)
DigitsValue(s) ==
    IF s = <<>> THEN 0
    ELSE 10 * DigitsValue(SubSeq(s, 1, Len(s) - 1)) + DigitValue(s[Len(s)])

\* whether int(s) returns: optional blanks around a non-empty run of digits
IsInt(s) ==
    /\ Strip(s) # <<>>
    /\ \A i \in 1..Len(Strip(s)) : Strip(s)[i] \in Range(Digits)

\* int(s)
ParseInt(s) == DigitsValue(Strip(s))

\* row.get("completed", "").strip().lower() in ("1", "true", "yes", "y")
ParseCompleted(s) ==
    Lower(Strip(s)) \in {<<"1">>, <<"t", "r", "u", "e">>, <<"y", "e", "s">>, <<"y">>}

-----------------------------------------------------------------------------
(* The initial state: TodoApp.__init__ with no tasks.json on disk.         *)

\* the four dialogs of edit_selected_task, none of them shown
NoAnswers == [text |-> Cancel, due |-> Cancel, pri |-> Cancel, tags |-> Cancel]

NoOp ==
    [name |-> "start", text |-> <<>>, data |-> NoData, snap |-> FALSE,
     ids |-> <<>>, ans |-> NoAnswers]

Init ==
    /\ tasks = <<>>
    /\ undo_stack = <<>>
    /\ redo_stack = <<>>
    /\ file = [exists |-> FALSE, data |-> <<>>]
    /\ disk_ok = TRUE
    /\ exported = [exists |-> FALSE, data |-> <<>>]
    /\ filter_mode = S_All
    /\ filter_priority = S_All
    /\ search_text = <<>>
    /\ tree = <<>>
    /\ dragging_iid = NoRow
    /\ now = 0
    /\ error = {}
    /\ lastOp = NoOp
    /\ trail = "-"
    /\ pre = [tasks |-> <<>>, now |-> 0, undo_stack |-> <<>>, redo_stack |-> <<>>]

-----------------------------------------------------------------------------
(* Pieces shared by the handlers.                                          *)

\* the run of handlers that ends with the one named: M a handler that took a
\* snapshot, U an undo and R a redo that had something to restore, each
\* directly after the other; "-" when the handler continues no such run
Trail(name, snap) ==
    IF snap THEN (IF trail \in {"U", "MU"} THEN "UM" ELSE "M")
    ELSE IF name = "undo" /\ undo_stack # <<>>
         THEN (IF trail \in {"M", "UM"} THEN "MU" ELSE "U")
    ELSE IF name = "redo" /\ trail = "MU" /\ redo_stack # <<>> THEN "MUR"
    ELSE IF name = "redo" /\ trail = "UM" THEN "UMR"
    ELSE "-"

\* the bookkeeping of a handler run: which handler, on which input (typed
\* text, kind of file, selected ids, dialog answers), from which state, and
\* whether it took a snapshot
LogAll(name, text, data, ids, ans, snap) ==
    /\ lastOp' = [name |-> name, text |-> text, data |-> data, snap |-> snap,
                  ids |-> ids, ans |-> ans]
    /\ trail' = Trail(name, snap)
    /\ pre' = [tasks |-> tasks, now |-> now,
               undo_stack |-> IF name \in {"undo", "redo"} THEN undo_stack ELSE <<>>,
               redo_stack |-> IF name \in {"undo", "redo"} THEN redo_stack ELSE <<>>]

\* a handler that works on no selection
Log(name, text, data, snap) == LogAll(name, text, data, <<>>, NoAnswers, snap)

\* a handler that works on the selected rows
LogSel(name, ids, snap) == LogAll(name, <<>>, NoData, ids, NoAnswers, snap)

\* a _save_snapshot that keeps the redo stack
SaveSnapshotKeepingRedo ==
    /\ undo_stack' = Append(undo_stack, Snapshot(tasks))
    /\ UNCHANGED redo_stack

\* _save_snapshot
_save_snapshot ==
    /\ undo_stack' = Append(undo_stack, Snapshot(tasks))
    /\ redo_stack' = <<>>

\* a _save_tasks that opens the file before it renumbers
SaveTasksOpenFirst(ts) == IF disk_ok THEN Renumber(ts) ELSE ts

\* _save_tasks on the list ts: the list it leaves in self.tasks.  The loop of
\* line 279 runs before open(): a write failure leaves the list renumbered.
_save_tasks(ts) == Renumber(ts)

\* the messagebox of _save_tasks
SaveErrors == IF disk_ok THEN {} ELSE {"Save Error"}

\* the exception _refresh_tree ends with, when it does
RefreshErrors(ts, mode, prio, search) ==
    IF RefreshCompletes(ts, mode, prio, search) THEN {} ELSE {"TclError"}

\* self._save_tasks(); self._refresh_tree() at the end of a handler that has
\* put ts in self.tasks
SaveAndRefresh(ts) ==
    /\ tasks' = _save_tasks(ts)
    /\ file' = WriteFile(_save_tasks(ts), file, disk_ok)
    /\ tree' = _refresh_tree(_save_tasks(ts), filter_mode, filter_priority, search_text)

\* a handler that returns early: nothing of the application changes
Return ==
    UNCHANGED <<tasks, undo_stack, redo_stack, file, tree, dragging_iid>>

\* the selected task ids, in the order of the rows
SelectionList(sel) == SelectSeq(tree, LAMBDA i : i \in sel)

\* the places of the tasks with the given id, in list order
Places(ts, task_id) == {i \in 1..Len(ts) : ts[i].id = task_id}

First(S) == CHOOSE i \in S : \A j \in S : i <= j

-----------------------------------------------------------------------------
(* The handlers.                                                           *)

\* the add entry's text taken as typed
AddTextUntrimmed(inp) == inp.text

\* line 336: self.add_entry.get().strip()
AddText(inp) == Strip(inp.text)

\* add_task; clk is the reading of its two calls of time.time(), taken in the
\* same millisecond
add_task(inp, clk) ==
    LET text == AddText(inp)
        priority == IF inp.priority = <<>> THEN S_Medium ELSE inp.priority
        due0 == Strip(inp.due)
        due == IF due0 = DATE_HINT THEN <<>> ELSE due0
        tags_text == Strip(inp.tags)
        tags == IF tags_text # <<>> THEN ParseTags(tags_text) ELSE <<>>
        new_id == clk
        order_index == Len(tasks)
        added == Append(tasks, Task(new_id, text, FALSE, clk, priority, due,
                                    tags, order_index))
    IN  IF text = <<>>
        THEN /\ Return
             /\ error' = {}
             /\ Log("add", inp.text, NoData, FALSE)
             /\ UNCHANGED <<now, disk_ok, exported, filter_mode, filter_priority, search_text>>
        ELSE /\ _save_snapshot
             /\ SaveAndRefresh(added)
             /\ now' = clk
             /\ error' = SaveErrors \cup
                    RefreshErrors(_save_tasks(added), filter_mode, filter_priority,
                                  search_text)
             /\ Log("add", inp.text, NoData, TRUE)
             /\ UNCHANGED <<dragging_iid, disk_ok, exported, filter_mode, filter_priority,
                            search_text>>

\* edit_selected_task, sel the selected rows and ans the dialogs' answers
edit_selected_task(sel, ans) ==
    LET ids == SelectionList(sel)
        found == IF ids = <<>> THEN {} ELSE Places(tasks, ids[1])
        k == First(found)
        task == tasks[k]
        new_text == Strip(ans.text.value)
        new_due == IF ans.due.ok THEN ans.due.value ELSE task.due_date
        new_pri == IF ans.pri.ok /\ ans.pri.value \in Range(PRIORITIES)
                   THEN ans.pri.value ELSE task.priority
        new_tags_list == IF ans.tags.ok THEN ParseTags(ans.tags.value) ELSE task.tags
        edited == [tasks EXCEPT ![k] = [task EXCEPT !.text = new_text,
                                                     !.due_date = new_due,
                                                     !.priority = new_pri,
                                                     !.tags = new_tags_list]]
    IN  /\ UNCHANGED <<now, disk_ok, exported, filter_mode, filter_priority, search_text>>
        /\ IF ids = <<>> \/ found = {} \/ ~ans.text.ok
           THEN /\ Return
                /\ error' = {}
                /\ Log("edit_none", <<>>, NoData, FALSE)
           ELSE IF new_text = <<>>
           THEN /\ Return
                /\ error' = {"Validation"}
                /\ LogAll("edit", ans.text.value, NoData, ids, ans, FALSE)
           ELSE /\ _save_snapshot
                /\ SaveAndRefresh(edited)
                /\ error' = SaveErrors \cup
                       RefreshErrors(_save_tasks(edited), filter_mode,
                                     filter_priority, search_text)
                /\ LogAll("edit", ans.text.value, NoData, ids, ans, TRUE)
                /\ UNCHANGED dragging_iid

\* a delete that spares the last task of the list
RemainingAndLast(ts, ids) ==
    SelectSeq(ts, LAMBDA t : t.id \notin ids \/ t = ts[Len(ts)])

\* line 392: [t for t in self.tasks if t.id not in ids]
Remaining(ts, ids) == SelectSeq(ts, LAMBDA t : t.id \notin ids)

\* delete_selected_tasks
delete_selected_tasks(sel) ==
    LET ids == Range(SelectionList(sel))
        left == Renumber(Remaining(tasks, ids))
    IN  /\ UNCHANGED <<now, disk_ok, exported, filter_mode, filter_priority, search_text>>
        /\ IF ids = {}
           THEN /\ Return
                /\ error' = {}
                /\ LogSel("delete", SelectionList(sel), FALSE)
           ELSE /\ _save_snapshot
                /\ SaveAndRefresh(left)
                /\ error' = SaveErrors \cup
                       RefreshErrors(_save_tasks(left), filter_mode, filter_priority,
                                     search_text)
                /\ LogSel("delete", SelectionList(sel), TRUE)
                /\ UNCHANGED dragging_iid

\* line 406: t.completed = not t.completed
Flip(t) == [t EXCEPT !.completed = ~t.completed]

\* toggle_selected_tasks
toggle_selected_tasks(sel) ==
    LET ids == Range(SelectionList(sel))
        flipped == [i \in 1..Len(tasks) |->
                      IF tasks[i].id \in ids THEN Flip(tasks[i]) ELSE tasks[i]]
    IN  /\ UNCHANGED <<now, disk_ok, exported, filter_mode, filter_priority, search_text>>
        /\ IF ids = {}
           THEN /\ Return
                /\ error' = {}
                /\ LogSel("toggle", SelectionList(sel), FALSE)
           ELSE /\ _save_snapshot
                /\ SaveAndRefresh(flipped)
                /\ error' = SaveErrors \cup
                       RefreshErrors(_save_tasks(flipped), filter_mode,
                                     filter_priority, search_text)
                /\ LogSel("toggle", SelectionList(sel), TRUE)
                /\ UNCHANGED dragging_iid

\* _on_tree_button_press: row is the row under the pointer (NoRow for none)
_on_tree_button_press(row) ==
    /\ dragging_iid' = row
    /\ UNCHANGED <<tasks, undo_stack, redo_stack, file, disk_ok, exported, filter_mode,
                   filter_priority, search_text, tree, now, error, lastOp,
                   trail, pre>>

\* the index of a row among the rows, from 0
RowIndex(rows, row) == (CHOOSE i \in 1..Len(rows) : rows[i] = row) - 1

\* tree.move(item, "", index): the item is taken out and put back at index
MoveRow(rows, item, index) ==
    LET rest == SelectSeq(rows, LAMBDA x : x # item)
        at == IF index > Len(rest) THEN Len(rest) ELSE index
    IN  SubSeq(rest, 1, at) \o <<item>> \o SubSeq(rest, at + 1, Len(rest))

\* _on_tree_motion; tree.move raises TclError when the dragged row is gone
_on_tree_motion(row_under) ==
    /\ tree' = IF /\ dragging_iid # NoRow
                  /\ row_under # NoRow
                  /\ row_under # dragging_iid
                  /\ dragging_iid \in Range(tree)
               THEN MoveRow(tree, dragging_iid, RowIndex(tree, row_under))
               ELSE tree
    /\ UNCHANGED <<tasks, undo_stack, redo_stack, file, disk_ok, exported, filter_mode,
                   filter_priority, search_text, dragging_iid, now, error,
                   lastOp, trail, pre>>

\* lines 428-432: the rows' order becomes the order_index of their tasks
ApplyOrder(ts, ordered_ids) ==
    [i \in 1..Len(ts) |->
        IF ts[i].id \in Range(ordered_ids)
        THEN [ts[i] EXCEPT !.order_index = RowIndex(ordered_ids, ts[i].id)]
        ELSE ts[i]]

\* _on_tree_button_release
_on_tree_button_release ==
    /\ dragging_iid # NoRow
    /\ _save_snapshot
    /\ dragging_iid' = NoRow
    /\ SaveAndRefresh(ApplyOrder(tasks, tree))
    /\ error' = SaveErrors \cup
           RefreshErrors(_save_tasks(ApplyOrder(tasks, tree)), filter_mode,
                         filter_priority, search_text)
    /\ Log("reorder", <<>>, NoData, TRUE)
    /\ UNCHANGED <<now, disk_ok, exported, filter_mode, filter_priority, search_text>>

\* undo
undo ==
    /\ UNCHANGED <<now, disk_ok, exported, filter_mode, filter_priority, search_text>>
    /\ IF undo_stack = <<>>
       THEN /\ Return
            /\ error' = {}
            /\ Log("undo", <<>>, NoData, FALSE)
       ELSE LET current == Snapshot(tasks)
                prev == undo_stack[Len(undo_stack)]
                restored == Restore(prev, now)
            IN  /\ undo_stack' = SubSeq(undo_stack, 1, Len(undo_stack) - 1)
                /\ redo_stack' = Append(redo_stack, current)
                /\ SaveAndRefresh(restored)
                /\ error' = SaveErrors \cup
                       RefreshErrors(_save_tasks(restored), filter_mode,
                                     filter_priority, search_text)
                /\ Log("undo", <<>>, NoData, FALSE)
                /\ UNCHANGED dragging_iid

\* redo
redo ==
    /\ UNCHANGED <<now, disk_ok, exported, filter_mode, filter_priority, search_text>>
    /\ IF redo_stack = <<>>
       THEN /\ Return
            /\ error' = {}
            /\ Log("redo", <<>>, NoData, FALSE)
       ELSE LET current == Snapshot(tasks)
                next_state == redo_stack[Len(redo_stack)]
                restored == Restore(next_state, now)
            IN  /\ redo_stack' = SubSeq(redo_stack, 1, Len(redo_stack) - 1)
                /\ undo_stack' = Append(undo_stack, current)
                /\ SaveAndRefresh(restored)
                /\ error' = SaveErrors \cup
                       RefreshErrors(_save_tasks(restored), filter_mode,
                                     filter_priority, search_text)
                /\ Log("redo", <<>>, NoData, FALSE)
                /\ UNCHANGED dragging_iid

\* [Task.from_dict(item) for item in data if isinstance(item, dict)], r the
\* clock readings, one for each dict
RECURSIVE LoadItems(_, _)
LoadItems(items, r) ==
    IF items = <<>> THEN <<>>
    ELSE IF Head(items).dict
    THEN <<from_dict(Head(items).val, r[1])>> \o LoadItems(Tail(items), Tail(r))
    ELSE LoadItems(Tail(items), r)

DictCount(items) == Len(SelectSeq(items, LAMBDA x : x.dict))

\* an import that takes any JSON value for a list
JsonIsListUnchecked(data) == TRUE

\* line 444: isinstance(data, list)
JsonIsList(data) == data.kind = "list"

\* import_json on a chosen file; a file that is no JSON, or whose top-level
\* value is no list, raises before anything is changed
import_json(data, r) ==
    LET loaded == LoadItems(data.items, r)
    IN  /\ UNCHANGED <<disk_ok, exported, filter_mode, filter_priority, search_text>>
        /\ IF ~JsonIsList(data)
           THEN /\ Return
                /\ error' = {"Import JSON"}
                /\ Log("import_json", <<>>, JsonKind(data), FALSE)
                /\ UNCHANGED now
           ELSE /\ _save_snapshot
                /\ SaveAndRefresh(loaded)
                /\ now' = IF r = <<>> THEN now ELSE r[Len(r)]
                /\ error' = SaveErrors \cup
                       (IF RefreshCompletes(_save_tasks(loaded), filter_mode,
                                            filter_priority, search_text)
                        THEN {} ELSE {"Import JSON"})
                /\ Log("import_json", <<>>, JsonKind(data), TRUE)
                /\ UNCHANGED dragging_iid

\* whether line 478 raises for the row
RowFails(row) == "order_index" \in DOMAIN row /\ ~IsInt(row.order_index)

\* an id taken from the clock alone
CsvIdWithoutOffset(built, clk) == clk

\* line 479: int(time.time() * 1000) + len(self.tasks)
CsvId(built, clk) == clk + Len(built)

\* lines 473-479 for one row, appended to the list built so far; clk is the
\* reading of the two calls of time.time() of line 479
AppendRow(built, row, clk) ==
    Append(built,
           Task(CsvId(built, clk),
                Get(row, "text", <<>>),
                ParseCompleted(Get(row, "completed", <<>>)),
                clk,
                Get(row, "priority", S_Medium),
                Get(row, "due_date", <<>>),
                ParseTags(Get(row, "tags", <<>>)),
                IF "order_index" \in DOMAIN row THEN ParseInt(row.order_index)
                ELSE Len(built)))

\* the loop of import_csv: the list built when it ends or raises
RECURSIVE ReadRows(_, _, _)
ReadRows(built, rows, r) ==
    IF rows = <<>> \/ RowFails(Head(rows)) THEN built
    ELSE ReadRows(AppendRow(built, Head(rows), r[1]), Tail(rows), Tail(r))

\* the number of rows read before the loop ends or raises
RECURSIVE RowsRead(_)
RowsRead(rows) ==
    IF rows = <<>> \/ RowFails(Head(rows)) THEN 0 ELSE 1 + RowsRead(Tail(rows))

\* what the claims need to know of an imported file: whether it can be read
\* and whether one of its rows makes line 478 raise
CsvKind(f) ==
    IF ~f.readable THEN "unreadable"
    ELSE IF \E i \in 1..Len(f.rows) : RowFails(f.rows[i]) THEN "bad_row"
    ELSE "rows"

\* import_csv on a chosen file
import_csv(f, r) ==
    LET built == ReadRows(<<>>, f.rows, r)
        failed == RowsRead(f.rows) < Len(f.rows)
    IN  /\ UNCHANGED <<disk_ok, exported, filter_mode, filter_priority, search_text>>
        /\ IF ~f.readable
           THEN /\ Return
                /\ error' = {"Import CSV"}
                /\ Log("import_csv", <<>>, CsvKind(f), FALSE)
                /\ UNCHANGED now
           ELSE /\ _save_snapshot
                /\ now' = IF r = <<>> THEN now ELSE r[Len(r)]
                /\ Log("import_csv", <<>>, CsvKind(f), TRUE)
                /\ IF failed
                   THEN /\ tasks' = built
                        /\ error' = {"Import CSV"}
                        /\ UNCHANGED <<file, tree, dragging_iid>>
                   ELSE /\ SaveAndRefresh(built)
                        /\ error' = SaveErrors \cup
                               (IF RefreshCompletes(_save_tasks(built), filter_mode,
                                                    filter_priority, search_text)
                                THEN {} ELSE {"Import CSV"})
                        /\ UNCHANGED dragging_iid

\* a filter widget is changed (radio button, priority box, search entry) and
\* its command runs _refresh_tree
SetFilters(mode, prio, search) ==
    /\ filter_mode' = mode
    /\ filter_priority' = prio
    /\ search_text' = search
    /\ tree' = _refresh_tree(tasks, mode, prio, search)
    /\ UNCHANGED <<tasks, undo_stack, redo_stack, file, disk_ok, exported, dragging_iid,
                   now, error, lastOp, trail, pre>>

set_filter_mode(mode) == SetFilters(mode, filter_priority, search_text)
set_filter_priority(prio) == SetFilters(filter_mode, prio, search_text)
set_search_text(search) == SetFilters(filter_mode, filter_priority, search)

\* _clear_filters
_clear_filters == SetFilters(S_All, S_All, <<>>)

\* export_json on a chosen path; writable: whether open(path, "w") succeeds
export_json(writable) ==
    /\ exported' = IF writable THEN [exists |-> TRUE, data |-> Snapshot(tasks)]
                   ELSE exported
    /\ error' = IF writable THEN {} ELSE {"Export JSON"}
    /\ UNCHANGED <<tasks, undo_stack, redo_stack, file, disk_ok, filter_mode,
                   filter_priority, search_text, tree, dragging_iid, now,
                   lastOp, trail, pre>>

\* the disk of tasks.json stops or starts taking writes (permissions, space)
set_disk(ok) ==
    /\ disk_ok # ok
    /\ disk_ok' = ok
    /\ UNCHANGED <<tasks, undo_stack, redo_stack, file, exported, filter_mode,
                   filter_priority, search_text, tree, dragging_iid, now, error,
                   lastOp, trail, pre>>

-----------------------------------------------------------------------------
(* The specification: any handler, on any of the inputs, at any time.      *)

Rows == Range(tree) \cup {NoRow}

\* Mouse button 1 is not held down over a row.  While it is, the pointer can
\* press no button, open no menu and double-click nothing, and the keyboard
\* focus is on the tree: only the tree's keys and the window's shortcuts work.
Idle == dragging_iid = NoRow

\* The bounds of the exploration: the undo stack and the collection grow no
\* further than this.
Room == Len(undo_stack) < MaxHist
Space == Len(tasks) < MaxTasks

Next ==
    \/ Idle /\ Room /\ Space /\
          \E inp \in AddInputs, clk \in now..MaxTime : add_task(inp, clk)
    \/ Idle /\ Room /\
          \E sel \in SUBSET Range(tree), ans \in EditInputs : edit_selected_task(sel, ans)
    \/ Room /\ \E sel \in SUBSET Range(tree) : delete_selected_tasks(sel)
    \/ Room /\ \E sel \in SUBSET Range(tree) : toggle_selected_tasks(sel)
    \/ \E row \in Rows : _on_tree_button_press(row)
    \/ \E row \in Rows : _on_tree_motion(row)
    \/ Room /\ _on_tree_button_release
    \/ undo
    \/ redo
    \/ Idle /\ Room /\
          \E data \in JsonFiles :
             \E r \in ClockRuns(now, DictCount(data.items)) : import_json(data, r)
    \/ Idle /\ Room /\
          \E f \in CsvFiles :
             \E r \in ClockRuns(now, RowsRead(f.rows)) : import_csv(f, r)
    \/ Idle /\ set_filter_mode(S_Active)
    \/ Idle /\ _clear_filters

Spec == Init /\ [][Next]_vars

\* The store's five operations alone (add, edit, toggle, delete, reorder), with
\* the events of the view between them.
StoreRoom == Len(undo_stack) < MaxStoreOps

NextStore ==
    \/ Idle /\ StoreRoom /\ Space /\
          \E inp \in AddInputs, clk \in now..MaxTime : add_task(inp, clk)
    \/ Idle /\ StoreRoom /\
          \E sel \in SUBSET Range(tree), ans \in EditInputs : edit_selected_task(sel, ans)
    \/ StoreRoom /\ \E sel \in SUBSET Range(tree) : delete_selected_tasks(sel)
    \/ StoreRoom /\ \E sel \in SUBSET Range(tree) : toggle_selected_tasks(sel)
    \/ \E row \in Rows : _on_tree_button_press(row)
    \/ \E row \in Rows : _on_tree_motion(row)
    \/ StoreRoom /\ _on_tree_button_release
    \/ Idle /\ \E mode \in {S_Active, S_Completed} : set_filter_mode(mode)
    \/ Idle /\ _clear_filters

SpecStore == Init /\ [][NextStore]_vars

\* The store's operations with undo and redo, on a disk that stops taking the
\* writes of tasks.json at some time.
DiskRoom == Len(undo_stack) < MaxDiskOps
DiskSpace == Len(tasks) < MaxDiskTasks

NextDisk ==
    \/ Idle /\ DiskRoom /\ DiskSpace /\
          \E inp \in AddInputs, clk \in now..MaxTime : add_task(inp, clk)
    \/ Idle /\ DiskRoom /\ \E sel \in SUBSET Range(tree) : delete_selected_tasks(sel)
    \/ Idle /\ DiskRoom /\ \E sel \in SUBSET Range(tree) : toggle_selected_tasks(sel)
    \/ \E row \in Rows : _on_tree_button_press(row)
    \/ DiskRoom /\ _on_tree_button_release
    \/ Idle /\ undo
    \/ Idle /\ redo
    \/ Idle /\ set_filter_mode(S_Active)
    \/ Idle /\ set_disk(FALSE)

SpecDisk == Init /\ [][NextDisk]_vars

\* Adding, toggling and dragging rows, with Export JSON at any time.
ExportRoom == Len(undo_stack) < MaxExportOps

NextExport ==
    \/ Idle /\ ExportRoom /\ Space /\
          \E inp \in AddInputs, clk \in now..MaxTime : add_task(inp, clk)
    \/ ExportRoom /\ \E sel \in SUBSET Range(tree) : toggle_selected_tasks(sel)
    \/ \E row \in Rows : _on_tree_button_press(row)
    \/ \E row \in Rows : _on_tree_motion(row)
    \/ ExportRoom /\ _on_tree_button_release
    \/ Idle /\ \E writable \in BOOLEAN : export_json(writable)

SpecExport == Init /\ [][NextExport]_vars

-----------------------------------------------------------------------------
(* What the claims speak of.                                               *)

\* the order_index values of the N tasks are exactly 0..N-1, each once
Contiguous(ts) ==
    \A k \in 0..(Len(ts) - 1) :
        Cardinality({i \in 1..Len(ts) : ts[i].order_index = k}) = 1

\* no two tasks of the list have the same id
IdsDistinct(ts) ==
    \A i, j \in 1..Len(ts) : i # j => ts[i].id # ts[j].id

\* a text that trims to the empty string
IsBlank(s) == \A i \in 1..Len(s) : s[i] = " "

-----------------------------------------------------------------------------
(* C1: after every add, edit, toggle, delete or reorder, in any sequence   *)
(* from the empty collection, the order_index values of the N tasks are a  *)
(* permutation of 0..N-1.                                                  *)
C1_OrderIndexPermutation == Contiguous(tasks)

\* two tasks whose list order differs from their order_index order, after a
\* reorder while one of three tasks was hidden by the filter
C1_Witness ==
    /\ lastOp.name = "reorder"
    /\ Len(tasks) = 3
    /\ Len(pre.tasks) = 3
    /\ Len(tree) < 3
    /\ \E i \in 1..3 : tasks[i].order_index # pre.tasks[i].order_index

(* C2: undo() directly after a mutating operation restores the collection *)
(* that existed immediately before that operation, equal in every field.   *)
C2_UndoRestoresPreMutation ==
    [][(trail \in {"M", "UM"} /\ trail' = "MU") => tasks' = pre.tasks]_vars

(* C3: redo() directly after an undo() that reverted a mutating operation  *)
(* restores the collection that existed immediately after that operation.  *)
C3_RedoRestoresPostMutation ==
    [][(trail = "MU" /\ trail' = "MUR") => tasks' = pre.tasks]_vars

(* C4: a forward mutation performed after an undo() empties redo_stack,    *)
(* and the redo() that directly follows it changes neither the collection  *)
(* nor the stacks.                                                         *)
C4_MutationAfterUndoKillsRedo ==
    [][/\ trail' = "UM" => redo_stack' = <<>>
       /\ (trail = "UM" /\ trail' = "UMR") =>
             UNCHANGED <<tasks, undo_stack, redo_stack>>]_vars

\* an undo that had put a non-empty collection on redo_stack, a mutation, and
\* then the redo
C4_Witness ==
    /\ trail = "UMR"
    /\ lastOp.name = "redo"
    /\ undo_stack # <<>>
    /\ tasks # <<>>

(* C5: in every reachable state the ids of the tasks in the collection are *)
(* pairwise distinct.                                                      *)
C5_IdsDistinct == IdsDistinct(tasks)

(* C6: an add or an edit whose text trims to empty leaves the collection,  *)
(* undo_stack, redo_stack and the persisted file as they were.             *)
C6_BlankTextIsNoOp ==
    [][(lastOp'.name \in {"add", "edit"} /\ IsBlank(lastOp'.text)) =>
          UNCHANGED <<tasks, undo_stack, redo_stack, file>>]_vars

\* an edit of a task of the collection, answered with blanks
C6_Witness ==
    /\ lastOp.name = "edit"
    /\ IsBlank(lastOp.text)
    /\ tasks # <<>>
    /\ "Validation" \in error

(* C7: Import JSON of a file whose top-level value is not an array leaves  *)
(* the collection, undo_stack and redo_stack unchanged and reports an      *)
(* error.                                                                  *)
C7_ImportJsonNotAList ==
    [][(lastOp'.name = "import_json" /\ lastOp'.data # "list") =>
          /\ UNCHANGED <<tasks, undo_stack, redo_stack>>
          /\ "Import JSON" \in error']_vars

\* a JSON object imported over a non-empty collection with a redo lineage
C7_Witness ==
    /\ lastOp.name = "import_json"
    /\ lastOp.data = "object"
    /\ tasks # <<>>
    /\ redo_stack # <<>>

(* C8: when Import CSV fails while reading rows, the in-memory collection  *)
(* is the one from before the import and its order_index values are a      *)
(* contiguous 0..N-1 range.                                                *)
C8_FailedCsvImportChangesNothing ==
    (lastOp.name = "import_csv" /\ lastOp.data = "bad_row") =>
        (tasks = pre.tasks /\ Contiguous(tasks))

(* C9: after a successful Import CSV every task has an id synthesized from *)
(* the clock at its row (the reading plus the row's place), whatever the    *)
(* file's id column says, and the ids are pairwise distinct.               *)
C9_CsvIdsFreshAndDistinct ==
    (lastOp.name = "import_csv" /\ lastOp.data = "rows") =>
        /\ IdsDistinct(tasks)
        /\ \A i \in 1..Len(tasks) :
              /\ pre.now + (i - 1) <= tasks[i].id
              /\ tasks[i].id <= now + (i - 1)

\* two rows read within the same millisecond, over a collection that held a
\* task
C9_Witness ==
    /\ lastOp.name = "import_csv"
    /\ lastOp.data = "rows"
    /\ Len(tasks) = 2
    /\ now = pre.now
    /\ pre.tasks # <<>>

\* C10's three predicates, as the claim words them
Passes(task, mode, prio, query) ==
    /\ mode = S_Active => ~task.completed
    /\ mode = S_Completed => task.completed
    /\ prio # S_All => task.priority = prio
    /\ ~IsBlank(query) =>
          IsSubstring(Lower(Strip(query)),
                      Lower(task.text \o <<" ">> \o task.due_date \o <<" ">>
                            \o task.priority \o <<" ">> \o Join(task.tags, <<",">>)))

(* C10: the rows the filter shows are exactly the tasks that pass the mode, *)
(* priority and query predicates, each once, in canonical order.           *)
C10_FilterShowsExactlyThePassingTasks ==
    LET rows == _refresh_tree(tasks, filter_mode, filter_priority, search_text)
        sorted == StableSort(tasks, ByCanonicalKey(tasks))
        passing == SelectSeq(sorted, LAMBDA t : Passes(t, filter_mode,
                                                       filter_priority, search_text))
    IN  /\ Len(rows) = Len(passing)
        /\ \A i \in 1..Len(rows) : rows[i] = passing[i].id

-----------------------------------------------------------------------------
(* Reordering.                                                             *)

\* the collection in canonical order
Canonical(ts) == StableSort(ts, ByCanonicalKey(ts))

\* the step of a button release that ends a drag: orderedIds is tree, the
\* collection before it is tasks and the collection after it is tasks'
ReorderStep ==
    /\ dragging_iid # NoRow
    /\ dragging_iid' = NoRow
    /\ lastOp'.name = "reorder"
    /\ Len(undo_stack') = Len(undo_stack) + 1

\* the places, in the sequence ts, of the tasks whose id is in the set ids
PlacesIn(ts, ids) == {i \in 1..Len(ts) : ts[i].id \in ids}

(* C11: after reorder(orderedIds) the tasks whose ids are in orderedIds    *)
(* stand, in canonical order, in the relative order orderedIds gives; and  *)
(* when every task's id is in orderedIds, the task with id orderedIds[i]   *)
(* has order_index i.                                                      *)
C11_ReorderFollowsOrderedIds ==
    [][ReorderStep =>
          LET canon == Canonical(tasks')
          IN  /\ \A i, j \in PlacesIn(canon, Range(tree)) :
                    RowIndex(tree, canon[i].id) < RowIndex(tree, canon[j].id)
                       => i < j
              /\ (PlacesIn(tasks, Range(tree)) = 1..Len(tasks)) =>
                    \A i \in 1..Len(tasks') :
                       tasks'[i].order_index = RowIndex(tree, tasks'[i].id)]_vars

(* C12: after reorder(orderedIds) with some tasks hidden by the filter,    *)
(* every task whose id is not in orderedIds comes, in canonical order,     *)
(* after all the tasks whose ids are in orderedIds, and the tasks not in   *)
(* orderedIds keep their relative order.                                   *)
C12_HiddenTasksGoLast ==
    [][ReorderStep =>
          LET canon == Canonical(tasks')
              before == Canonical(tasks)
              shown == PlacesIn(canon, Range(tree))
              hidden == (1..Len(canon)) \ shown
          IN  /\ \A i \in shown, j \in hidden : i < j
              /\ SelectSeq(canon, LAMBDA t : t.id \notin Range(tree))
                    = [k \in 1..Cardinality(hidden) |->
                          [SelectSeq(before, LAMBDA t : t.id \notin Range(tree))[k]
                              EXCEPT !.order_index = canon[CHOOSE i \in hidden :
                                  Cardinality({j \in hidden : j < i}) = k - 1].order_index]]]_vars

-----------------------------------------------------------------------------
(* Delete.                                                                 *)

\* the step of a handler of the given name that took a snapshot
SnapshotStep(name) ==
    /\ lastOp'.name = name
    /\ lastOp'.snap
    /\ Len(undo_stack') = Len(undo_stack) + 1

(* C13: delete(ids) with a non-empty set removes exactly the tasks whose   *)
(* id is in ids; the remaining tasks keep their relative order and their   *)
(* other fields, and their order_index values become 0..M-1 in that order; *)
(* delete with an empty set changes neither the collection nor the stacks. *)
C13_DeleteRemovesExactlyTheIds ==
    [][/\ SnapshotStep("delete") =>
             LET ids == Range(lastOp'.ids)
                 kept == SelectSeq(Canonical(tasks), LAMBDA t : t.id \notin ids)
                 after == Canonical(tasks')
             IN  /\ ids # {}
                 /\ Len(after) = Len(kept)
                 /\ \A k \in 1..Len(kept) :
                       after[k] = [kept[k] EXCEPT !.order_index = k - 1]
       /\ (lastOp'.name = "delete" /\ lastOp'.ids = <<>>) =>
             UNCHANGED <<tasks, undo_stack, redo_stack>>]_vars

\* a delete of the first of two tasks in canonical order: the one that stays
\* moves from order_index 1 to 0
C13_Witness ==
    /\ lastOp.name = "delete"
    /\ lastOp.snap
    /\ Len(pre.tasks) = 2
    /\ IdsDistinct(pre.tasks)
    /\ Len(tasks) = 1
    /\ \E i \in 1..2 : /\ pre.tasks[i].id \in Range(lastOp.ids)
                       /\ pre.tasks[i].order_index = 0
    /\ tasks[1].order_index = 0

-----------------------------------------------------------------------------
(* Files.                                                                  *)

(* C14: the sequence of records written by Export JSON is the full current *)
(* collection in canonical order, sorted by (order_index, created_at, id). *)
C14_ExportInCanonicalOrder ==
    [][exported' # exported =>
          exported'.data = Snapshot(Canonical(tasks))]_vars

(* C15: between two user events the task records of the persisted state    *)
(* file are equal, record for record, to the serialized in-memory          *)
(* collection (no write of tasks.json fails in the runs checked).          *)
C15_FileEqualsMemory == disk_ok => file.data = Snapshot(tasks)

\* the collection ts after the named mutation, as the claims word the four
\* operations: add appends a task with the trimmed text, toggle flips the
\* selected tasks, delete keeps the tasks not selected, reorder puts the
\* tasks shown in the order of the rows
IsPostMutation(name, before, after, op, rows) ==
    CASE name = "add" ->
            /\ Len(after) = Len(before) + 1
            /\ SubSeq(after, 1, Len(before)) = before
            /\ after[Len(after)].text = Strip(op.text)
      [] name = "toggle" ->
            /\ Len(after) = Len(before)
            /\ \A i \in 1..Len(before) :
                  after[i] = IF before[i].id \in Range(op.ids)
                             THEN [before[i] EXCEPT !.completed = ~before[i].completed]
                             ELSE before[i]
      [] name = "delete" ->
            /\ Len(after) = Cardinality(PlacesIn(before, {before[i].id : i \in 1..Len(before)}
                                                             \ Range(op.ids)))
            /\ \A i \in 1..Len(after) : after[i].id \notin Range(op.ids)
      [] name = "reorder" ->
            /\ Len(after) = Len(before)
            /\ \A i, j \in PlacesIn(after, Range(rows)) :
                  RowIndex(rows, after[i].id) < RowIndex(rows, after[j].id)
                     => after[i].order_index < after[j].order_index
      [] OTHER -> FALSE

(* C16: when the write of tasks.json fails during a mutating operation,    *)
(* the in-memory collection holds the post-mutation state with order_index *)
(* a contiguous 0..N-1 range, the pre-mutation snapshot is on undo_stack,  *)
(* and the undo that follows restores the pre-mutation collection.         *)
C16_WriteFailureKeepsMemory ==
    [][/\ (~disk_ok /\ lastOp'.snap /\ Len(undo_stack') = Len(undo_stack) + 1) =>
             /\ "Save Error" \in error'
             /\ file' = file
             /\ IsPostMutation(lastOp'.name, tasks, tasks', lastOp', tree)
             /\ Contiguous(tasks')
             /\ undo_stack' = Append(undo_stack, Snapshot(tasks))
       /\ ("Save Error" \in error /\ trail \in {"M", "UM"} /\ trail' = "MU") =>
             /\ tasks' = pre.tasks
             /\ undo_stack' = SubSeq(undo_stack, 1, Len(undo_stack) - 1)]_vars

\* no write of tasks.json has ever gone through: a mutation of a collection
\* of two tasks on the failing disk, and then the undo, itself not saved
C16_Witness ==
    /\ ~file.exists
    /\ ~disk_ok
    /\ trail = "MU"
    /\ "Save Error" \in error
    /\ redo_stack # <<>>
    /\ Len(tasks) = 2
    /\ Len(tree) = 1
    /\ Snapshot(tasks) # redo_stack[Len(redo_stack)]

-----------------------------------------------------------------------------
(* Toggle and edit.                                                        *)

(* C17: toggle(ids) with a non-empty set flips completed for every task    *)
(* whose id is in ids and leaves every other field of those tasks and      *)
(* every field of all other tasks unchanged; toggle with an empty set      *)
(* takes no snapshot and changes nothing.                                  *)
C17_ToggleFlipsOnlyCompleted ==
    [][/\ SnapshotStep("toggle") =>
             /\ lastOp'.ids # <<>>
             /\ Len(tasks') = Len(tasks)
             /\ \A i \in 1..Len(tasks) :
                   tasks'[i] = IF tasks[i].id \in Range(lastOp'.ids)
                               THEN [tasks[i] EXCEPT !.completed = ~tasks[i].completed]
                               ELSE tasks[i]
       /\ (lastOp'.name = "toggle" /\ lastOp'.ids = <<>>) =>
             UNCHANGED <<tasks, undo_stack, redo_stack, file>>]_vars

(* C18: a successful edit changes only text, due_date, priority and tags   *)
(* of the one targeted task: its id, created_at, completed and             *)
(* order_index, and every field of every other task, are unchanged; a      *)
(* cancelled dialog, or a new priority outside Low, Medium, High, leaves   *)
(* that field at its previous value.                                       *)
C18_EditFrame ==
    [][SnapshotStep("edit") =>
          LET ans == lastOp'.ans
              k == First(Places(tasks, lastOp'.ids[1]))
          IN  /\ Len(tasks') = Len(tasks)
              /\ \A i \in (1..Len(tasks)) \ {k} : tasks'[i] = tasks[i]
              /\ tasks'[k].id = tasks[k].id
              /\ tasks'[k].created_at = tasks[k].created_at
              /\ tasks'[k].completed = tasks[k].completed
              /\ tasks'[k].order_index = tasks[k].order_index
              /\ ~ans.due.ok => tasks'[k].due_date = tasks[k].due_date
              /\ (~ans.pri.ok \/ \A p \in 1..3 : PRIORITIES[p] # ans.pri.value) =>
                    tasks'[k].priority = tasks[k].priority
              /\ ~ans.tags.ok => tasks'[k].tags = tasks[k].tags]_vars

-----------------------------------------------------------------------------
(* Undo and redo.                                                          *)

\* the step of an undo that had a snapshot to restore
UndoStep ==
    /\ lastOp'.name = "undo"
    /\ Len(undo_stack') = Len(undo_stack) - 1

\* the step of a redo that had a snapshot to restore
RedoStep ==
    /\ lastOp'.name = "redo"
    /\ Len(redo_stack') = Len(redo_stack) - 1

\* the collection and the stacks are what they were before the last handler
BackToPre(ts, us, rs) ==
    /\ ts = pre.tasks
    /\ us = pre.undo_stack
    /\ rs = pre.redo_stack

(* C19: undo() followed by redo() restores the collection, undo_stack and  *)
(* redo_stack exactly, and so does redo() followed by undo(); neither      *)
(* changes len(undo_stack) + len(redo_stack).                              *)
C19_UndoRedoInverses ==
    [][/\ (lastOp.name = "undo" /\ pre.undo_stack # <<>> /\ RedoStep) =>
             BackToPre(tasks', undo_stack', redo_stack')
       /\ (lastOp.name = "redo" /\ pre.redo_stack # <<>> /\ UndoStep) =>
             BackToPre(tasks', undo_stack', redo_stack')
       /\ lastOp'.name \in {"undo", "redo"} =>
             Len(undo_stack') + Len(redo_stack')
                = Len(undo_stack) + Len(redo_stack)]_vars

\* the rows stand as _refresh_tree last put them: no row was moved
RowsUnmoved ==
    tree = _refresh_tree(tasks, filter_mode, filter_priority, search_text)

(* C20: a press and release on a row with no movement pushes a snapshot on *)
(* undo_stack and empties redo_stack, so that after an undo and such a     *)
(* gesture redo() is a no-op, and the gesture leaves the collection as it  *)
(* was.                                                                    *)
C20_ClickPushesSnapshot ==
    [][/\ (ReorderStep /\ RowsUnmoved) =>
             /\ undo_stack' = Append(undo_stack, Snapshot(tasks))
             /\ redo_stack' = <<>>
             /\ tasks' = tasks
       /\ (trail = "UM" /\ lastOp.name = "reorder" /\ lastOp'.name = "redo") =>
             UNCHANGED <<tasks, undo_stack, redo_stack>>]_vars

====
